---------------------------- MODULE Spec2Model ----------------------------
(***************************************************************************)
(* Model of gittools (src/gittools/gittools.py): queries of a git          *)
(* repository's state (HEAD hash, dirty/clean, tags) and the metadata      *)
(* report built from them.                                                 *)
(*                                                                         *)
(* The state is the world the functions read and write: the file system,   *)
(* the repositories (commits, uncommitted changes, tags), the installed    *)
(* distributions, the clock and the metadata file; plus the record of the  *)
(* last call (its arguments and its outcome: a value or an exception).     *)
(* The environment actions change the world as git and the shell do; one   *)
(* action per public function calls it on the current world.               *)
(***************************************************************************)
EXTENDS Naturals, Sequences, FiniteSets, TLC

VARIABLES
    fs,      \* the regular files that exist (absolute paths)
    repos,   \* repository name -> [commits, modified, tags]
    dists,   \* the installed distributions (importlib metadata)
    now,     \* the clock (seconds, UTC)
    file,    \* the content of the metadata file, or NoFile
    ret      \* the last call: its arguments and its outcome

vars == <<fs, repos, dists, now, file, ret>>

--------------------------------------------------------------------------
(* Bounds of the exploration *)

MaxCommits == 2      \* commits per repository
MaxTags == 2         \* tags per repository
MaxModules == 2      \* length of the modules argument of check_modules
MaxSaveModules == 1  \* length of the modules argument of save_metadata
MaxInfoKeys == 1     \* keys of the info argument of save_metadata
MaxTime == 1         \* clock ticks

--------------------------------------------------------------------------
(* Sequences and paths. A path is the sequence of its components. *)

IsPrefix(s, t) == Len(s) <= Len(t) /\ SubSeq(t, 1, Len(s)) = s

RECURSIVE Join(_, _)
Join(parts, sep) ==
    IF parts = <<>> THEN ""
    ELSE IF Len(parts) = 1 THEN parts[1]
    ELSE parts[1] \o sep \o Join(Tail(parts), sep)

Range(s) == {s[i] : i \in 1..Len(s)}

RepoNames == {"r1", "r2"}

\* Repo.working_dir: the directory holding .git
working_dir(r) == <<r>>

\* the files a repository's working tree may hold, relative to its root
RepoFiles(r) == IF r = "r1" THEN {<<"m1.py">>, <<"pkg", "m2.py">>}
                ELSE {<<"m3.py">>}

\* files outside every repository (installed packages)
SiteFiles == {<<"site", "m4.py">>, <<"site", "lib", "sub.py">>}

AllFiles == SiteFiles \cup UNION {{working_dir(r) \o f : f \in RepoFiles(r)} : r \in RepoNames}

\* the directories: every proper ancestor of a file
Dirs == UNION {{SubSeq(f, 1, n) : n \in 1..(Len(f) - 1)} : f \in AllFiles}

\* the process's working directory, against which relative paths resolve
Cwd == <<"r1", "pkg">>

\* the path arguments: absolute paths, and paths relative to Cwd ('.' is
\* the relative path with no component, the functions' default)
InputPaths ==
    {[abs |-> TRUE, parts |-> p] : p \in AllFiles \cup Dirs}
    \cup {[abs |-> FALSE, parts |-> <<>>], [abs |-> FALSE, parts |-> <<"m2.py">>]}

--------------------------------------------------------------------------
(* Outcomes: a returned value or a raised exception *)

\* Body applied to the value of an expression (a local name of the source)
Bind(value, Body(_)) == Body(value)

Ok(v) == [exc |-> "none", val |-> v]
Raise(e, msg) == [exc |-> e, val |-> msg]

NoFile == [kind |-> "absent"]
Idle == [op |-> "idle"]

--------------------------------------------------------------------------
(* The git library, as the source uses it *)

\* str(commit): the commit's hexsha
HexSha(c) ==
    IF c.repo = "r1" THEN <<"1a1a", "1b1b", "1c1c", "1d1d">>[c.n]
    ELSE <<"2a2a", "2b2b", "2c2c", "2d2d">>[c.n]

\* the tag names, in the order repo.tags enumerates them (sorted by name)
TagNames == <<"v0.1", "v0.2", "v0.3">>
TagRank(name) == CHOOSE i \in 1..Len(TagNames) : TagNames[i] = name

\* Repo(p, search_parent_directories=True): the repository whose working
\* directory is p or an ancestor of p
Repo(p) ==
    LET found == {r \in RepoNames : IsPrefix(working_dir(r), p)} IN
    IF found = {} THEN Raise("InvalidGitRepositoryError", "/" \o Join(p, "/"))
    ELSE Ok(CHOOSE r \in found : TRUE)

\* repo.is_dirty(): index or tracked files differ from HEAD (untracked
\* files do not count)
is_dirty(r) == repos[r].modified # {}

\* repo.head.commit
HeadCommit(r) == [repo |-> r, n |-> Len(repos[r].commits)]

\* the names commit.tree[...] resolves: every tracked file and every
\* directory above one, as posix names relative to the root
TreeNames(c) ==
    UNION {{Join(SubSeq(f, 1, n), "/") : n \in 1..Len(f)} :
              f \in repos[c.repo].commits[c.n]}

Exists(p) == p \in Dirs \/ p \in fs

--------------------------------------------------------------------------
(* Private subroutines *)

\* Path(path).resolve(): a relative path resolves against Cwd
Resolve(path) == IF path.abs THEN path.parts ELSE Cwd \o path.parts

_pathify(path) ==
    LET pathabs == Resolve(path) IN
    IF ~Exists(pathabs)
    THEN Raise("FileNotFoundError", "Path /" \o Join(pathabs, "/") \o " does not exist")
    ELSE Ok(pathabs)

\* str(localpath) where the names of the platform are kept
PosixName_native(localpath) == IF localpath = <<>> THEN "." ELSE Join(localpath, "\\")

\* str(PurePosixPath(localpath)): the empty relative path prints as '.'
PosixName(localpath) == IF localpath = <<>> THEN "." ELSE Join(localpath, "/")

--------------------------------------------------------------------------
(* Public functions *)

path_in_tree(path, commit) ==
    Bind(_pathify(path), LAMBDA pathabs :
    IF pathabs.exc # "none" THEN pathabs
    ELSE
    LET rootabs == working_dir(commit.repo) IN
    IF ~IsPrefix(rootabs, pathabs.val)
    THEN Raise("ValueError", "not in the subpath of the root")
    ELSE
    Bind(PosixName(SubSeq(pathabs.val, Len(rootabs) + 1, Len(pathabs.val))),
         LAMBDA localname :
    IF localname = "." THEN Ok(TRUE)
    ELSE IF localname \notin TreeNames(commit) THEN Ok(FALSE)
    ELSE Ok(TRUE)))

\* the dirty check left out
current_commit_hash_nodirty(path, checkdirty, checktree) ==
    Bind(_pathify(path), LAMBDA p :
    IF p.exc # "none" THEN p
    ELSE
    Bind(Repo(p.val), LAMBDA repo :
    IF repo.exc # "none" THEN repo
    ELSE
    Bind(HeadCommit(repo.val), LAMBDA commit :
    IF ~checktree THEN Ok(HexSha(commit))
    ELSE
    Bind(path_in_tree(path, commit), LAMBDA intree :
    IF intree.exc # "none" THEN intree
    ELSE IF ~intree.val THEN Raise("NotInTree", "Path or file not in working tree.")
    ELSE Ok(HexSha(commit))))))

\* the tree check made before the dirty check
current_commit_hash_treefirst(path, checkdirty, checktree) ==
    Bind(_pathify(path), LAMBDA p :
    IF p.exc # "none" THEN p
    ELSE
    Bind(Repo(p.val), LAMBDA repo :
    IF repo.exc # "none" THEN repo
    ELSE
    Bind(HeadCommit(repo.val), LAMBDA commit :
    Bind(IF checktree THEN path_in_tree(path, commit) ELSE Ok(TRUE), LAMBDA intree :
    IF intree.exc # "none" THEN intree
    ELSE IF ~intree.val THEN Raise("NotInTree", "Path or file not in working tree.")
    ELSE IF checkdirty /\ is_dirty(repo.val)
    THEN Raise("DirtyRepo", "Dirty repo, please commit recent changes first.")
    ELSE Ok(HexSha(commit))))))

current_commit_hash(path, checkdirty, checktree) ==
    Bind(_pathify(path), LAMBDA p :
    IF p.exc # "none" THEN p
    ELSE
    Bind(Repo(p.val), LAMBDA repo :
    IF repo.exc # "none" THEN repo
    ELSE IF checkdirty /\ is_dirty(repo.val)
    THEN Raise("DirtyRepo", "Dirty repo, please commit recent changes first.")
    ELSE
    Bind(HeadCommit(repo.val), LAMBDA commit :
    IF ~checktree THEN Ok(HexSha(commit))
    ELSE
    Bind(path_in_tree(path, commit), LAMBDA intree :
    IF intree.exc # "none" THEN intree
    ELSE IF ~intree.val THEN Raise("NotInTree", "Path or file not in working tree.")
    ELSE Ok(HexSha(commit))))))

\* a commit's first tag kept
RECURSIVE TagDict_first(_, _)
TagDict_first(r, tags) ==
    IF tags = <<>> THEN <<>>
    ELSE
    Bind(TagDict_first(r, SubSeq(tags, 1, Len(tags) - 1)), LAMBDA front :
    Bind(tags[Len(tags)], LAMBDA tag :
    Bind(HexSha([repo |-> r, n |-> tag.commit]), LAMBDA key :
    [k \in DOMAIN front \cup {key} |-> IF k \in DOMAIN front THEN front[k] ELSE tag.name])))

\* the dict comprehension {str(tag.commit): str(tag) for tag in tags}:
\* a later tag of the same commit replaces the earlier one
RECURSIVE TagDict(_, _)
TagDict(r, tags) ==
    IF tags = <<>> THEN <<>>
    ELSE
    Bind(TagDict(r, SubSeq(tags, 1, Len(tags) - 1)), LAMBDA front :
    Bind(tags[Len(tags)], LAMBDA tag :
    Bind(HexSha([repo |-> r, n |-> tag.commit]), LAMBDA key :
    [k \in DOMAIN front \cup {key} |-> IF k = key THEN tag.name ELSE front[k]])))

repo_tags(path) ==
    Bind(_pathify(path), LAMBDA p :
    IF p.exc # "none" THEN p
    ELSE
    Bind(Repo(p.val), LAMBDA repo :
    IF repo.exc # "none" THEN repo
    ELSE Ok(TagDict(repo.val, repos[repo.val].tags))))

\* {**a, **b}
Merge(a, b) ==
    [k \in DOMAIN a \cup DOMAIN b |-> IF k \in DOMAIN b THEN b[k] ELSE a[k]]

\* the status not set to dirty on the retry
path_status_clean(path) ==
    Bind(current_commit_hash(path, TRUE, TRUE), LAMBDA first :
    Bind(first.exc = "DirtyRepo", LAMBDA isdirty :
    Bind(IF isdirty THEN current_commit_hash(path, FALSE, TRUE) ELSE first, LAMBDA cch :
    IF cch.exc # "none" THEN cch
    ELSE
    Bind([hash |-> cch.val, status |-> "clean"], LAMBDA info :
    Bind(repo_tags(path), LAMBDA commits_with_tags :
    IF commits_with_tags.exc # "none" THEN commits_with_tags
    ELSE IF cch.val \in DOMAIN commits_with_tags.val
    THEN Ok(Merge(info, [tag |-> commits_with_tags.val[cch.val]]))
    ELSE Ok(info))))))

path_status(path) ==
    Bind(current_commit_hash(path, TRUE, TRUE), LAMBDA first :
    Bind(first.exc = "DirtyRepo", LAMBDA isdirty :
    Bind(IF isdirty THEN current_commit_hash(path, FALSE, TRUE) ELSE first, LAMBDA cch :
    IF cch.exc # "none" THEN cch
    ELSE
    Bind([hash |-> cch.val, status |-> IF isdirty THEN "dirty" ELSE "clean"],
         LAMBDA info :
    Bind(repo_tags(path), LAMBDA commits_with_tags :
    IF commits_with_tags.exc # "none" THEN commits_with_tags
    ELSE IF cch.val \in DOMAIN commits_with_tags.val
    THEN Ok(Merge(info, [tag |-> commits_with_tags.val[cch.val]]))
    ELSE Ok(info))))))

--------------------------------------------------------------------------
(* Modules: [name: the dotted name's parts, file, version: the module's   *)
(* __version__ or NoAttr]                                                  *)

NoAttr == "<no attribute>"

Modules == {
    [name |-> <<"m1">>, file |-> <<"r1", "m1.py">>, version |-> NoAttr],
    [name |-> <<"m3">>, file |-> <<"r2", "m3.py">>, version |-> NoAttr],
    [name |-> <<"m4">>, file |-> <<"site", "m4.py">>, version |-> "1.0"],
    [name |-> <<"lib", "sub">>, file |-> <<"site", "lib", "sub.py">>, version |-> NoAttr] }

\* module.__name__
NameOf(module) == Join(module.name, ".")

\* str(module)
ModuleRepr(module) ==
    "<module '" \o NameOf(module) \o "' from '/" \o Join(module.file, "/") \o "'>"

\* the distributions that can be installed, and their versions
DistVersion(name) == IF name = "lib" THEN "2.1" ELSE "0.0"
Distributions == {"lib"}

\* the distribution looked up under the module's full dotted name
_get_version_nosplit(module) ==
    IF module.version # NoAttr THEN Ok(module.version)
    ELSE
    Bind(NameOf(module), LAMBDA name :
    IF name \in dists THEN Ok(DistVersion(name))
    ELSE Raise("PackageNotFoundError", name))

_get_version(module) ==
    IF module.version # NoAttr THEN Ok(module.version)
    ELSE
    Bind(IF Len(module.name) > 1 THEN module.name[1] ELSE NameOf(module), LAMBDA name :
    IF name \in dists THEN Ok(DistVersion(name))
    ELSE Raise("PackageNotFoundError", name))

module_status(module, nogit_ok) ==
    Bind(path_status([abs |-> TRUE, parts |-> module.file]), LAMBDA status :
    IF status.exc # "InvalidGitRepositoryError" THEN status
    ELSE IF ~nogit_ok
    THEN Raise("InvalidGitRepositoryError", ModuleRepr(module) \o " not a git repo")
    ELSE
    Bind([status |-> "not a git repository"], LAMBDA info :
    Bind(_get_version(module), LAMBDA version :
    Bind(IF version.exc = "PackageNotFoundError" THEN <<>>
         ELSE [tag |-> "v" \o version.val], LAMBDA tag_info :
    Ok(Merge(info, tag_info))))))

--------------------------------------------------------------------------
(* Python values. A dict that is iterated is kept as the sequence of its   *)
(* items, in insertion order; None, a module and a list are told apart by  *)
(* a type tag.                                                             *)

None == [t |-> "None"]
Str(s) == [t |-> "str", v |-> s]
Int(digits) == [t |-> "int", v |-> digits]

DictKeys(d) == [i \in 1..Len(d) |-> d[i].key]
DictHas(d, k) == \E i \in 1..Len(d) : d[i].key = k
DictGet(d, k) == d[CHOOSE i \in 1..Len(d) : d[i].key = k].value

\* d[k] = v: a key already present keeps its place
DictSet(d, k, v) ==
    IF DictHas(d, k)
    THEN [i \in 1..Len(d) |-> IF d[i].key = k THEN [key |-> k, value |-> v] ELSE d[i]]
    ELSE Append(d, [key |-> k, value |-> v])

is_iterable(x) == x.t = "list"

\* the tuple (x,) is kept as the sequence of its one item
_make_iterable(x) == IF is_iterable(x) THEN x ELSE [t |-> "list", v |-> <<x.v>>]

--------------------------------------------------------------------------
(* Functions for status of python modules *)

\* {module.__name__: module_status(module, nogit_ok) for module in modules}:
\* the first module_status that raises ends the comprehension
RECURSIVE InfoModules(_, _)
InfoModules(modules, nogit_ok) ==
    IF modules = <<>> THEN Ok(<<>>)
    ELSE
    Bind(InfoModules(SubSeq(modules, 1, Len(modules) - 1), nogit_ok), LAMBDA front :
    IF front.exc # "none" THEN front
    ELSE
    Bind(modules[Len(modules)], LAMBDA module :
    Bind(module_status(module, nogit_ok), LAMBDA status :
    IF status.exc # "none" THEN status
    ELSE Ok(DictSet(front.val, NameOf(module), status.val)))))

\* only the module iterated last is looked at
ModulesWithStatus_last(info_modules, s) ==
    IF info_modules = <<>> THEN <<>>
    ELSE
    Bind(info_modules[Len(info_modules)], LAMBDA item :
    IF item.value.status = s THEN <<item.key>> ELSE <<>>)

\* [module for module, info in info_modules.items() if info['status'] == s]
RECURSIVE ModulesWithStatus(_, _)
ModulesWithStatus(info_modules, s) ==
    IF info_modules = <<>> THEN <<>>
    ELSE
    Bind(Head(info_modules), LAMBDA item :
    Bind(ModulesWithStatus(Tail(info_modules), s), LAMBDA rest :
    IF item.value.status = s THEN <<item.key>> \o rest ELSE rest))

\* the test of the tag key inverted
RECURSIVE TaglessModules_tagged(_)
TaglessModules_tagged(info_modules) ==
    IF info_modules = <<>> THEN <<>>
    ELSE
    Bind(Head(info_modules), LAMBDA item :
    Bind(TaglessModules_tagged(Tail(info_modules)), LAMBDA rest :
    IF "tag" \in DOMAIN item.value THEN <<item.key>> \o rest ELSE rest))

\* [module for module, info in info_modules.items() if 'tag' not in info]
RECURSIVE TaglessModules(_)
TaglessModules(info_modules) ==
    IF info_modules = <<>> THEN <<>>
    ELSE
    Bind(Head(info_modules), LAMBDA item :
    Bind(TaglessModules(Tail(info_modules)), LAMBDA rest :
    IF "tag" \notin DOMAIN item.value THEN <<item.key>> \o rest ELSE rest))

DirtyMsg(names) ==
    "These modules have dirty git repositories: " \o Join(names, ", ")
NoTagMsg(names) ==
    "Warning: these modules are missing a tag: " \o Join(names, ", ")
NoGitMsg(names) ==
    "Warning: these modules are not in a git repository: " \o Join(names, ", ")

\* flags: [dirty_ok, dirty_warning, notag_warning, nogit_ok, nogit_warning]
Flags == [dirty_ok : BOOLEAN, dirty_warning : BOOLEAN, notag_warning : BOOLEAN,
          nogit_ok : BOOLEAN, nogit_warning : BOOLEAN]

\* the outcome, and the warnings emitted on the way
check_modules(modules, flags) ==
    Bind(InfoModules(modules, flags.nogit_ok), LAMBDA built :
    IF built.exc # "none" THEN [out |-> built, warnings |-> <<>>]
    ELSE
    Bind(built.val, LAMBDA info_modules :
    Bind(IF flags.dirty_warning \/ ~flags.dirty_ok
         THEN ModulesWithStatus(info_modules, "dirty") ELSE <<>>,
         LAMBDA dirty_modules :
    IF Len(dirty_modules) > 0 /\ ~flags.dirty_ok
    THEN [out |-> Raise("DirtyRepo", DirtyMsg(dirty_modules)), warnings |-> <<>>]
    ELSE
    Bind(IF flags.notag_warning THEN TaglessModules(info_modules) ELSE <<>>,
         LAMBDA tagless_modules :
    Bind(IF flags.nogit_ok /\ flags.nogit_warning
         THEN ModulesWithStatus(info_modules, "not a git repository") ELSE <<>>,
         LAMBDA nogit_modules :
    [out |-> Ok(info_modules),
     warnings |->
         (IF Len(dirty_modules) > 0 THEN <<DirtyMsg(dirty_modules)>> ELSE <<>>)
         \o (IF Len(tagless_modules) > 0 THEN <<NoTagMsg(tagless_modules)>> ELSE <<>>)
         \o (IF Len(nogit_modules) > 0 THEN <<NoGitMsg(nogit_modules)>> ELSE <<>>)])))))

--------------------------------------------------------------------------
(* json, as save_metadata uses it. A document is a JSON object: a function *)
(* from its (string) keys to JSON values.                                  *)

\* the values the model's callers put in info
Tuple(items) == [t |-> "tuple", v |-> items]
PySet(items) == [t |-> "set", v |-> items]

\* json.dump writes a dict key that is an int as the string of its digits
JsonKey(key) == key.v

\* json.dump of a value: a tuple is written as an array, as a list is
JsonValue(value) ==
    CASE value.t = "str" -> [t |-> "string", v |-> value.v]
      [] value.t = "int" -> [t |-> "number", v |-> value.v]
      [] value.t \in {"tuple", "list"} -> [t |-> "array", v |-> value.v]
      [] value.t = "dict" -> [t |-> "object", v |-> value.v]

\* json.dump raises TypeError on a value it cannot encode
Serializable(value) == value.t \in {"str", "int", "tuple", "list", "dict"}

\* json.load of a value
PyValue(jv) ==
    CASE jv.t = "string" -> [t |-> "str", v |-> jv.v]
      [] jv.t = "number" -> [t |-> "int", v |-> jv.v]
      [] jv.t = "array" -> [t |-> "list", v |-> jv.v]
      [] jv.t = "object" -> [t |-> "dict", v |-> jv.v]

\* json.load of a document: the dict read back
json_load(doc) == [key \in {Str(k) : k \in DOMAIN doc} |-> PyValue(doc[key.v])]

\* the document's keys added to those the file already holds
json_dump_update(metadata) ==
    IF \A key \in DOMAIN metadata : Serializable(metadata[key])
    THEN Bind(IF file = NoFile \/ file = [kind |-> "partial"] THEN <<>> ELSE file.doc,
              LAMBDA old :
         [out |-> Ok(None),
          file |-> [kind |-> "json",
                    doc |-> [k \in DOMAIN old \cup {JsonKey(key) : key \in DOMAIN metadata} |->
                               IF k \in {JsonKey(key) : key \in DOMAIN metadata}
                               THEN JsonValue(metadata[CHOOSE key \in DOMAIN metadata :
                                                           JsonKey(key) = k])
                               ELSE old[k]]]])
    ELSE [out |-> Raise("TypeError", "Object is not JSON serializable"),
          file |-> [kind |-> "partial"]]

\* the file after open(file, 'w') and json.dump(metadata, f): the document,
\* or what was written before the value json could not encode
Partial == [kind |-> "partial"]
json_dump(metadata) ==
    IF \A key \in DOMAIN metadata : Serializable(metadata[key])
    THEN [out |-> Ok(None),
          file |-> [kind |-> "json",
                    doc |-> [k \in {JsonKey(key) : key \in DOMAIN metadata} |->
                               JsonValue(metadata[CHOOSE key \in DOMAIN metadata :
                                                      JsonKey(key) = k])]]]
    ELSE [out |-> Raise("TypeError", "Object is not JSON serializable"),
          file |-> Partial]

\* datetime.now(timezone.utc).strftime('%Y-%m-%d %H:%M:%S')
strftime(t) ==
    <<"2024-05-01 12:00:00", "2024-05-01 12:00:01", "2024-05-01 12:00:02">>[t + 1]

TimeKey == Str("time (utc)")
CodeKey == Str("code version")

DeprecationMsg ==
    "Future version of gittools.save_metadata() will not accept the module= argument"

\* metadata = info.copy() if info is not None else {}
InitialMetadata(info) == IF info.t # "None" THEN info.v ELSE <<>>

\* the caller's info object once save_metadata has built metadata: the
\* keys are set on the copy, so the caller's dict is as it was
CallerInfo(info, metadata) == info

\* the file opened for writing before the modules are checked
save_metadata_openfirst(info, module, modules, flags) ==
    Bind(IF module.t # "None" THEN <<DeprecationMsg>> ELSE <<>>, LAMBDA deprecation :
    Bind(IF module.t # "None" THEN _make_iterable(module) ELSE modules, LAMBDA mods :
    Bind(Merge(InitialMetadata(info), TimeKey :> Str(strftime(now))), LAMBDA stamped :
    IF mods.t = "None"
    THEN Bind(json_dump(stamped), LAMBDA dumped :
         [out |-> dumped.out, warnings |-> deprecation, file |-> dumped.file,
          info |-> CallerInfo(info, stamped)])
    ELSE
    Bind(check_modules(mods.v, flags), LAMBDA checked :
    IF checked.out.exc # "none"
    THEN [out |-> checked.out, warnings |-> deprecation,
          file |-> [kind |-> "json", doc |-> <<>>],
          info |-> CallerInfo(info, stamped)]
    ELSE
    Bind(Merge(stamped, CodeKey :> [t |-> "dict", v |-> checked.out.val]),
         LAMBDA metadata :
    Bind(json_dump(metadata), LAMBDA dumped :
    [out |-> dumped.out, warnings |-> deprecation \o checked.warnings,
     file |-> dumped.file, info |-> CallerInfo(info, metadata)]))))))

\* the outcome, the warnings, the file and the caller's info afterwards
save_metadata(info, module, modules, flags) ==
    Bind(IF module.t # "None" THEN <<DeprecationMsg>> ELSE <<>>, LAMBDA deprecation :
    Bind(IF module.t # "None" THEN _make_iterable(module) ELSE modules, LAMBDA mods :
    Bind(Merge(InitialMetadata(info), TimeKey :> Str(strftime(now))), LAMBDA stamped :
    IF mods.t = "None"
    THEN Bind(json_dump(stamped), LAMBDA dumped :
         [out |-> dumped.out, warnings |-> deprecation, file |-> dumped.file,
          info |-> CallerInfo(info, stamped)])
    ELSE
    Bind(check_modules(mods.v, flags), LAMBDA checked :
    IF checked.out.exc # "none"
    THEN [out |-> checked.out, warnings |-> deprecation, file |-> file,
          info |-> CallerInfo(info, stamped)]
    ELSE
    Bind(Merge(stamped, CodeKey :> [t |-> "dict", v |-> checked.out.val]),
         LAMBDA metadata :
    Bind(json_dump(metadata), LAMBDA dumped :
    [out |-> dumped.out, warnings |-> deprecation \o checked.warnings,
     file |-> dumped.file, info |-> CallerInfo(info, metadata)]))))))

--------------------------------------------------------------------------
(* The initial world: every file present, each repository with one commit  *)
(* that tracks all its files, nothing modified, no tag.                    *)

Init ==
    /\ fs = AllFiles
    /\ repos = [r \in RepoNames |->
                   [commits |-> <<RepoFiles(r)>>, modified |-> {}, tags |-> <<>>]]
    /\ dists = Distributions
    /\ now = 0
    /\ file = NoFile
    /\ ret = Idle

\* what the metadata file may hold before a save: nothing, or another document
Stale == [kind |-> "json", doc |-> ("stale" :> [t |-> "string", v |-> "old"])]
PriorFiles == {NoFile, Stale}

\* no call is in progress, and the metadata file is one a save may find
Quiet == ret = Idle /\ file \in PriorFiles

HeadTree(r) == repos[r].commits[Len(repos[r].commits)]
AbsPath(r, f) == working_dir(r) \o f

--------------------------------------------------------------------------
(* The environment: the shell and git change the world *)

\* edit a tracked file
Modify(r, f) ==
    /\ Quiet
    /\ f \in HeadTree(r) /\ AbsPath(r, f) \in fs
    /\ f \notin repos[r].modified
    /\ repos' = [repos EXCEPT ![r].modified = @ \cup {f}]
    /\ UNCHANGED <<fs, dists, now, file, ret>>

\* rm: a tracked file becomes a deletion to commit, an added one is dropped
Delete(r, f) ==
    /\ Quiet
    /\ AbsPath(r, f) \in fs
    /\ fs' = fs \ {AbsPath(r, f)}
    /\ repos' = [repos EXCEPT ![r].modified =
                    IF f \in HeadTree(r) THEN @ \cup {f} ELSE @ \ {f}]
    /\ UNCHANGED <<dists, now, file, ret>>

\* write a new, untracked file
Create(r, f) ==
    /\ Quiet
    /\ AbsPath(r, f) \notin fs /\ f \notin HeadTree(r)
    /\ fs' = fs \cup {AbsPath(r, f)}
    /\ UNCHANGED <<repos, dists, now, file, ret>>

\* git checkout -- f: a modified or deleted tracked file is as in HEAD again
Restore(r, f) ==
    /\ Quiet
    /\ f \in HeadTree(r) /\ f \in repos[r].modified
    /\ fs' = fs \cup {AbsPath(r, f)}
    /\ repos' = [repos EXCEPT ![r].modified = @ \ {f}]
    /\ UNCHANGED <<dists, now, file, ret>>

\* git add of an untracked file
Stage(r, f) ==
    /\ Quiet
    /\ AbsPath(r, f) \in fs /\ f \notin HeadTree(r)
    /\ f \notin repos[r].modified
    /\ repos' = [repos EXCEPT ![r].modified = @ \cup {f}]
    /\ UNCHANGED <<fs, dists, now, file, ret>>

\* git commit -a: the new HEAD tracks what is tracked or added and exists
Commit(r) ==
    /\ Quiet
    /\ repos[r].modified # {}
    /\ Len(repos[r].commits) < MaxCommits
    /\ repos' = [repos EXCEPT
                    ![r].commits = Append(@, {f \in HeadTree(r) \cup repos[r].modified :
                                                 AbsPath(r, f) \in fs}),
                    ![r].modified = {}]
    /\ UNCHANGED <<fs, dists, now, file, ret>>

\* git tag name commit: repo.tags enumerates the tags sorted by name
Tag(r, name, n) ==
    /\ Quiet
    /\ Len(repos[r].tags) < MaxTags
    /\ n \in 1..Len(repos[r].commits)
    /\ \A i \in 1..Len(repos[r].tags) : repos[r].tags[i].name # name
    /\ LET tags == repos[r].tags
           before == SelectSeq(tags, LAMBDA tag : TagRank(tag.name) < TagRank(name))
           after == SelectSeq(tags, LAMBDA tag : TagRank(tag.name) > TagRank(name))
       IN  repos' = [repos EXCEPT ![r].tags =
                        before \o <<[name |-> name, commit |-> n]>> \o after]
    /\ UNCHANGED <<fs, dists, now, file, ret>>

\* pip install / uninstall
Install(d) ==
    /\ Quiet
    /\ d \notin dists
    /\ dists' = dists \cup {d}
    /\ UNCHANGED <<fs, repos, now, file, ret>>

Uninstall(d) ==
    /\ Quiet
    /\ d \in dists
    /\ dists' = dists \ {d}
    /\ UNCHANGED <<fs, repos, now, file, ret>>

Tick ==
    /\ Quiet
    /\ now < MaxTime
    /\ now' = now + 1
    /\ UNCHANGED <<fs, repos, dists, file, ret>>

\* the metadata file is removed, or replaced by another document
PutFile(content) ==
    /\ ret = Idle
    /\ content \in PriorFiles /\ content # file
    /\ file' = content
    /\ UNCHANGED <<fs, repos, dists, now, ret>>

\* the caller takes the outcome of the call
Return ==
    /\ ret # Idle
    /\ ret' = Idle
    /\ UNCHANGED <<fs, repos, dists, now, file>>

--------------------------------------------------------------------------
(* The calls *)

Commits == {[repo |-> r, n |-> n] : r \in RepoNames, n \in 1..(MaxCommits + 1)}
ExistingCommits == {c \in Commits : c.n <= Len(repos[c.repo].commits)}

CallPathInTree(path, commit) ==
    /\ Quiet
    /\ commit \in ExistingCommits
    /\ ret' = [op |-> "path_in_tree", path |-> path, commit |-> commit,
               out |-> path_in_tree(path, commit)]
    /\ UNCHANGED <<fs, repos, dists, now, file>>

CallCurrentCommitHash(path, checkdirty, checktree) ==
    /\ Quiet
    /\ ret' = [op |-> "current_commit_hash", path |-> path,
               checkdirty |-> checkdirty, checktree |-> checktree,
               out |-> current_commit_hash(path, checkdirty, checktree)]
    /\ UNCHANGED <<fs, repos, dists, now, file>>

CallRepoTags(path) ==
    /\ Quiet
    /\ ret' = [op |-> "repo_tags", path |-> path, out |-> repo_tags(path)]
    /\ UNCHANGED <<fs, repos, dists, now, file>>

CallPathStatus(path) ==
    /\ Quiet
    /\ ret' = [op |-> "path_status", path |-> path, out |-> path_status(path)]
    /\ UNCHANGED <<fs, repos, dists, now, file>>

CallModuleStatus(module, nogit_ok) ==
    /\ Quiet
    /\ ret' = [op |-> "module_status", module |-> module, nogit_ok |-> nogit_ok,
               out |-> module_status(module, nogit_ok)]
    /\ UNCHANGED <<fs, repos, dists, now, file>>

CallCheckModules(modules, flags) ==
    /\ Quiet
    /\ LET done == check_modules(modules, flags) IN
       ret' = [op |-> "check_modules", modules |-> modules, flags |-> flags,
               out |-> done.out, warnings |-> done.warnings]
    /\ UNCHANGED <<fs, repos, dists, now, file>>

CallSaveMetadata(info, module, modules, flags) ==
    /\ Quiet
    /\ LET done == save_metadata(info, module, modules, flags) IN
       /\ ret' = [op |-> "save_metadata", info |-> info, module |-> module,
                  modules |-> modules, flags |-> flags, before |-> file,
                  out |-> done.out, warnings |-> done.warnings,
                  info_after |-> done.info]
       /\ file' = done.file
    /\ UNCHANGED <<fs, repos, dists, now>>

--------------------------------------------------------------------------
(* The arguments the calls are explored with *)

SeqsUpTo(S, n) == UNION {[1..k -> S] : k \in 0..n}

InfoKeys == {Str("user"), TimeKey, CodeKey, Int("7")}
InfoValues == {Str("run 1"), Tuple(<<"a", "b">>), PySet(<<"a">>)}
InfoArgs ==
    {None} \cup
    {[t |-> "dict", v |-> d] :
        d \in UNION {[K -> InfoValues] :
                        K \in {T \in SUBSET InfoKeys : Cardinality(T) <= MaxInfoKeys}}}

ModulesArgs == {None} \cup {[t |-> "list", v |-> ms] : ms \in SeqsUpTo(Modules, MaxSaveModules)}
\* the deprecated module argument: a module, or an iterable of modules
ModuleArgs ==
    {None} \cup {[t |-> "module", v |-> m] : m \in Modules}
    \cup {[t |-> "list", v |-> <<m>>] : m \in Modules}

\* the flags save_metadata is explored with: the three warning flags together
SaveFlags == {flags \in Flags : flags.dirty_warning = flags.notag_warning
                                /\ flags.notag_warning = flags.nogit_warning}

--------------------------------------------------------------------------
(* The repository functions: path_in_tree, current_commit_hash, repo_tags, *)
(* path_status, on repository r1 as its files, commits and tags change     *)

RepoEnv ==
    \/ \E f \in RepoFiles("r1") : Modify("r1", f)
    \/ \E f \in RepoFiles("r1") : Restore("r1", f)
    \/ \E f \in RepoFiles("r1") : Delete("r1", f)
    \/ \E f \in RepoFiles("r1") : Create("r1", f)
    \/ \E f \in RepoFiles("r1") : Stage("r1", f)
    \/ Commit("r1")
    \/ \E i \in 1..MaxTags : \E n \in 1..MaxCommits : Tag("r1", TagNames[i], n)
    \/ Return

Next ==
    \/ RepoEnv
    \/ Quiet /\ \E path \in InputPaths : \E commit \in Commits : CallPathInTree(path, commit)
    \/ Quiet /\ \E path \in InputPaths : \E checkdirty, checktree \in BOOLEAN :
          CallCurrentCommitHash(path, checkdirty, checktree)
    \/ Quiet /\ \E path \in InputPaths : CallRepoTags(path)
    \/ Quiet /\ \E path \in InputPaths : CallPathStatus(path)

Spec == Init /\ [][Next]_vars

--------------------------------------------------------------------------
(* The module functions: module_status and check_modules, as the modules'  *)
(* files, their repositories and the installed distributions change        *)

ModuleFile(r) == IF r = "r1" THEN <<"m1.py">> ELSE <<"m3.py">>

ModulesEnv ==
    \/ \E r \in RepoNames : Modify(r, ModuleFile(r))
    \/ \E r \in RepoNames : Restore(r, ModuleFile(r))
    \/ Delete("r1", ModuleFile("r1"))
    \/ Create("r1", ModuleFile("r1"))
    \/ Commit("r1")
    \/ \E n \in 1..MaxCommits : Tag("r1", TagNames[1], n)
    \/ \E d \in Distributions : Install(d)
    \/ \E d \in Distributions : Uninstall(d)
    \/ Return

NoRepeat(s) == \A i, j \in 1..Len(s) : i # j => s[i] # s[j]

NextModules ==
    \/ ModulesEnv
    \/ Quiet /\ \E module \in Modules : \E nogit_ok \in BOOLEAN : CallModuleStatus(module, nogit_ok)
    \/ Quiet /\ \E modules \in SeqsUpTo(Modules, MaxModules) : \E flags \in Flags :
          NoRepeat(modules) /\ CallCheckModules(modules, flags)

SpecModules == Init /\ [][NextModules]_vars

--------------------------------------------------------------------------
(* save_metadata, as a repository, the clock and the metadata file change  *)

SaveEnv ==
    \/ Modify("r1", ModuleFile("r1"))
    \/ Delete("r1", ModuleFile("r1"))
    \/ Restore("r1", ModuleFile("r1"))
    \/ Tick
    \/ \E content \in PriorFiles : PutFile(content)
    \/ Return

NextSave ==
    \/ SaveEnv
    \/ Quiet /\ \E info \in InfoArgs : \E module \in ModuleArgs : \E modules \in ModulesArgs :
       \E flags \in SaveFlags :
          /\ module = None \/ modules = None
          /\ CallSaveMetadata(info, module, modules, flags)

SpecSave == Init /\ [][NextSave]_vars

--------------------------------------------------------------------------
(* What the claims speak of, read off the world *)

\* the repositories above a path (none, or one)
Enclosing(p) == {r \in RepoNames : IsPrefix(<<r>>, p)}
RepoAbove(p) == CHOOSE r \in Enclosing(p) : TRUE
LocalPart(p) == SubSeq(p, 2, Len(p))

\* a path relative to the root is an entry of a tree: a file of it, or a
\* directory above one
EntryOf(local, tree) == local # <<>> /\ \E f \in tree : IsPrefix(local, f)

\* an existing path inside a repository
InsideRepo(path) == Exists(Resolve(path)) /\ Enclosing(Resolve(path)) # {}

\* the path is the root of its repository or an entry of the HEAD tree
InHeadTree(path) ==
    LET p == Resolve(path) IN
    p = <<RepoAbove(p)>> \/ EntryOf(LocalPart(p), HeadTree(RepoAbove(p)))

Uncommitted(r) == repos[r].modified # {}
HeadHash(r) == HexSha([repo |-> r, n |-> Len(repos[r].commits)])

\* the tags bound to the HEAD commit, by their place in the enumeration
HeadTags(r) == {i \in 1..Len(repos[r].tags) :
                   repos[r].tags[i].commit = Len(repos[r].commits)}

--------------------------------------------------------------------------
(* C1. For a repository with uncommitted changes and any existing path     *)
(* inside it, current_commit_hash(path, checkdirty=True) fails with        *)
(* DirtyRepo, and current_commit_hash(path, checkdirty=False) succeeds and *)
(* returns the HEAD commit hash. As stated (checktree left at its default, *)
(* True) this fails on a path that is not in the HEAD tree.                *)
C1_Original ==
    (/\ ret.op = "current_commit_hash"
     /\ ret.checktree
     /\ InsideRepo(ret.path)
     /\ Uncommitted(RepoAbove(Resolve(ret.path))))
    => IF ret.checkdirty THEN ret.out.exc = "DirtyRepo"
       ELSE ret.out.exc = "none" /\ ret.out.val = HeadHash(RepoAbove(Resolve(ret.path)))

(* C1, amended. With checkdirty=True the call fails with DirtyRepo whatever *)
(* checktree is; with checkdirty=False it returns the HEAD commit hash when *)
(* the path is the repository root or an entry of the HEAD tree, or when    *)
(* checktree is False, and otherwise fails with NotInTree.                  *)
C1_DirtyRepoHash ==
    (/\ ret.op = "current_commit_hash"
     /\ InsideRepo(ret.path)
     /\ Uncommitted(RepoAbove(Resolve(ret.path))))
    => IF ret.checkdirty THEN ret.out.exc = "DirtyRepo"
       ELSE IF ~ret.checktree \/ InHeadTree(ret.path)
       THEN ret.out.exc = "none" /\ ret.out.val = HeadHash(RepoAbove(Resolve(ret.path)))
       ELSE ret.out.exc = "NotInTree"

\* a dirty repository, an untracked file in it, checkdirty=False: NotInTree
C1_Witness ==
    /\ ret.op = "current_commit_hash"
    /\ InsideRepo(ret.path)
    /\ Uncommitted(RepoAbove(Resolve(ret.path)))
    /\ ~ret.checkdirty /\ ret.checktree
    /\ ~InHeadTree(ret.path)
    /\ ret.out.exc = "NotInTree"

--------------------------------------------------------------------------
\* the record path_status is to return for a path inside a repository
StatusRecordRight(path, record) ==
    LET r == RepoAbove(Resolve(path)) IN
    /\ {"hash", "status"} \subseteq DOMAIN record
    /\ DOMAIN record \subseteq {"hash", "status", "tag"}
    /\ record.hash = HeadHash(r)
    /\ record.status = IF Uncommitted(r) THEN "dirty" ELSE "clean"
    /\ "tag" \in DOMAIN record <=> HeadTags(r) # {}
    /\ "tag" \in DOMAIN record =>
          \E i \in HeadTags(r) : record.tag = repos[r].tags[i].name

(* C3. For any existing path inside a repository, clean or dirty,          *)
(* path_status returns a record whose hash is the HEAD commit hash, whose  *)
(* status is dirty exactly when the repository has uncommitted changes,    *)
(* and which has a tag key exactly when a tag is bound to that hash; no    *)
(* exception escapes. As stated this fails on a path that is not in the    *)
(* HEAD tree.                                                              *)
C3_Original ==
    (ret.op = "path_status" /\ InsideRepo(ret.path))
    => ret.out.exc = "none" /\ StatusRecordRight(ret.path, ret.out.val)

(* C3, amended. For an existing path inside a repository that is the root  *)
(* or an entry of the HEAD tree, path_status returns that record and never *)
(* lets DirtyRepo escape; for any other existing path inside a repository  *)
(* it fails with NotInTree, clean or dirty.                                *)
C3_PathStatusRecord ==
    (ret.op = "path_status" /\ InsideRepo(ret.path))
    => IF InHeadTree(ret.path)
       THEN ret.out.exc = "none" /\ StatusRecordRight(ret.path, ret.out.val)
       ELSE ret.out.exc = "NotInTree"

\* a tracked path of a dirty repository whose HEAD is tagged
C3_Witness ==
    /\ ret.op = "path_status"
    /\ InsideRepo(ret.path) /\ InHeadTree(ret.path)
    /\ Uncommitted(RepoAbove(Resolve(ret.path)))
    /\ ret.out.exc = "none"
    /\ ret.out.val.status = "dirty"
    /\ "tag" \in DOMAIN ret.out.val

--------------------------------------------------------------------------
(* C6. path_in_tree on the root of the commit's repository is true for     *)
(* every commit, whatever its tree holds; for any other existing path      *)
(* under the root it is true exactly when the root-relative path is an     *)
(* entry of the commit's tree, and absence is the value false, never an    *)
(* error.                                                                  *)
C6_PathInTree ==
    (/\ ret.op = "path_in_tree"
     /\ Exists(Resolve(ret.path))
     /\ IsPrefix(<<ret.commit.repo>>, Resolve(ret.path)))
    => /\ ret.out.exc = "none"
       /\ ret.out.val <=>
             \/ Resolve(ret.path) = <<ret.commit.repo>>
             \/ EntryOf(LocalPart(Resolve(ret.path)),
                        repos[ret.commit.repo].commits[ret.commit.n])

\* the root, asked of a commit whose tree is empty
C6_Witness ==
    /\ ret.op = "path_in_tree"
    /\ Resolve(ret.path) = <<ret.commit.repo>>
    /\ repos[ret.commit.repo].commits[ret.commit.n] = {}
    /\ ret.out = Ok(TRUE)

--------------------------------------------------------------------------
(* C8. repo_tags returns an empty mapping for a repository with no tag,    *)
(* and otherwise a mapping from commit hash to tag name with exactly one   *)
(* entry per tagged commit, whose value is the last of that commit's tags  *)
(* in the enumeration order.                                               *)
C8_RepoTags ==
    (ret.op = "repo_tags" /\ InsideRepo(ret.path))
    => LET r == RepoAbove(Resolve(ret.path))
           tags == repos[r].tags
           tagged == {tags[i].commit : i \in 1..Len(tags)}
           last(n) == CHOOSE i \in 1..Len(tags) :
                         /\ tags[i].commit = n
                         /\ \A j \in 1..Len(tags) : tags[j].commit = n => j <= i
       IN  /\ ret.out.exc = "none"
           /\ tags = <<>> => DOMAIN ret.out.val = {}
           /\ DOMAIN ret.out.val = {HexSha([repo |-> r, n |-> n]) : n \in tagged}
           /\ Cardinality(DOMAIN ret.out.val) = Cardinality(tagged)
           /\ \A n \in tagged :
                 ret.out.val[HexSha([repo |-> r, n |-> n])] = tags[last(n)].name

\* two tags on one commit: the mapping holds the later one
C8_Witness ==
    /\ ret.op = "repo_tags"
    /\ InsideRepo(ret.path)
    /\ ret.out.exc = "none"
    /\ LET tags == repos[RepoAbove(Resolve(ret.path))].tags IN
       /\ Len(tags) = 2
       /\ tags[1].commit = tags[2].commit
       /\ Cardinality(DOMAIN ret.out.val) = 1
       /\ \A k \in DOMAIN ret.out.val : ret.out.val[k] = tags[2].name

--------------------------------------------------------------------------
(* C10. current_commit_hash makes its checks in a fixed order: the path    *)
(* exists (FileNotFoundError), a repository is found, the repository is    *)
(* not dirty (DirtyRepo), the path is in the HEAD tree (NotInTree). On a   *)
(* dirty repository and a path absent from the HEAD tree, with both checks *)
(* on, it raises DirtyRepo; path_status on such a path catches that,       *)
(* retries with checkdirty=False and raises NotInTree.                     *)
C10_CheckOrder ==
    /\ ret.op = "current_commit_hash" =>
          IF ~Exists(Resolve(ret.path)) THEN ret.out.exc = "FileNotFoundError"
          ELSE IF Enclosing(Resolve(ret.path)) = {}
          THEN ret.out.exc = "InvalidGitRepositoryError"
          ELSE IF ret.checkdirty /\ Uncommitted(RepoAbove(Resolve(ret.path)))
          THEN ret.out.exc = "DirtyRepo"
          ELSE IF ret.checktree /\ ~InHeadTree(ret.path)
          THEN ret.out.exc = "NotInTree"
          ELSE ret.out.exc = "none"
    /\ (/\ ret.op = "path_status"
        /\ InsideRepo(ret.path)
        /\ Uncommitted(RepoAbove(Resolve(ret.path)))
        /\ ~InHeadTree(ret.path))
       => ret.out.exc = "NotInTree"

\* both checks on, a dirty repository, a path absent from the HEAD tree
C10_Witness ==
    /\ ret.op = "current_commit_hash"
    /\ ret.checkdirty /\ ret.checktree
    /\ InsideRepo(ret.path)
    /\ Uncommitted(RepoAbove(Resolve(ret.path)))
    /\ ~InHeadTree(ret.path)
    /\ ret.out.exc = "DirtyRepo"

--------------------------------------------------------------------------
(* What the claims about modules speak of, read off the world *)

ModulePath(m) == [abs |-> TRUE, parts |-> m.file]

\* module_status(m, nogit_ok) returns a record: the file exists and is in
\* the HEAD tree of its repository, or is in no repository and that is
\* tolerated
Resolves(m, nogit_ok) ==
    /\ Exists(m.file)
    /\ IF Enclosing(m.file) = {} THEN nogit_ok ELSE InHeadTree(ModulePath(m))

DirtyModule(m) == Enclosing(m.file) # {} /\ Uncommitted(RepoAbove(m.file))
NoGitModule(m) == Enclosing(m.file) = {}

\* the version of a module: its __version__, or that of the installed
\* distribution named as its top-level package
HasVersion(m) == m.version # NoAttr \/ m.name[1] \in dists
VersionOf(m) == IF m.version # NoAttr THEN m.version ELSE DistVersion(m.name[1])

TaglessModule(m) ==
    IF NoGitModule(m) THEN ~HasVersion(m) ELSE HeadTags(RepoAbove(m.file)) = {}

\* the names of the modules of a list that satisfy Test, in the list's order
NamesWhere(modules, Test(_)) ==
    LET chosen == SelectSeq(modules, Test) IN
    [i \in 1..Len(chosen) |-> Join(chosen[i].name, ".")]

AllResolve(modules, nogit_ok) ==
    \A i \in 1..Len(modules) : Resolves(modules[i], nogit_ok)

--------------------------------------------------------------------------
(* C2. check_modules with dirty_ok=False, on modules that all resolve to a *)
(* status, fails with DirtyRepo if and only if at least one module is      *)
(* dirty, and the message lists exactly the names of all the dirty         *)
(* modules, wherever they stand in the iteration.                          *)
C2_DirtyModulesFatal ==
    (/\ ret.op = "check_modules"
     /\ ~ret.flags.dirty_ok
     /\ AllResolve(ret.modules, ret.flags.nogit_ok))
    => LET dirty == NamesWhere(ret.modules, DirtyModule) IN
       IF dirty # <<>>
       THEN /\ ret.out.exc = "DirtyRepo"
            /\ ret.out.val =
                  "These modules have dirty git repositories: " \o Join(dirty, ", ")
       ELSE ret.out.exc = "none"

\* two modules, the first dirty and the last clean: DirtyRepo names the first
C2_Witness ==
    /\ ret.op = "check_modules"
    /\ ~ret.flags.dirty_ok
    /\ Len(ret.modules) = 2
    /\ AllResolve(ret.modules, ret.flags.nogit_ok)
    /\ DirtyModule(ret.modules[1]) /\ ~DirtyModule(ret.modules[2])
    /\ ret.out.exc = "DirtyRepo"
    /\ ret.out.val = "These modules have dirty git repositories: m1"

--------------------------------------------------------------------------
\* dirty_ok is false and some module's repository is dirty
FatalDirty(modules, flags) ==
    ~flags.dirty_ok /\ \E i \in 1..Len(modules) : DirtyModule(modules[i])

\* one entry per module name, in order, each module_status's record
FullReport(modules, flags, report) ==
    /\ DictKeys(report) = NamesWhere(modules, LAMBDA m : TRUE)
    /\ \A i \in 1..Len(modules) :
          report[i].value = module_status(modules[i], flags.nogit_ok).val

\* the warnings, each decided by its own flags and its own modules
ExpectedWarnings(modules, flags) ==
    LET dirty == NamesWhere(modules, DirtyModule)
        tagless == NamesWhere(modules, TaglessModule)
        nogit == NamesWhere(modules, NoGitModule)
    IN  (IF flags.dirty_ok /\ flags.dirty_warning /\ dirty # <<>>
         THEN <<"These modules have dirty git repositories: " \o Join(dirty, ", ")>>
         ELSE <<>>)
        \o (IF flags.notag_warning /\ tagless # <<>>
            THEN <<"Warning: these modules are missing a tag: " \o Join(tagless, ", ")>>
            ELSE <<>>)
        \o (IF flags.nogit_ok /\ flags.nogit_warning /\ nogit # <<>>
            THEN <<"Warning: these modules are not in a git repository: "
                   \o Join(nogit, ", ")>>
            ELSE <<>>)

(* C4. check_modules returns the full per-module report (one entry per     *)
(* module name, each the result of module_status) whatever the flags and   *)
(* the warnings, the only exception being the fatal dirty case (dirty_ok   *)
(* false and some module dirty); the dirty warning, the no-tag warning and *)
(* the no-repository warning are each decided independently of the other   *)
(* two. As stated this fails when module_status itself raises.             *)
C4_Original ==
    (ret.op = "check_modules" /\ ~FatalDirty(ret.modules, ret.flags))
    => /\ ret.out.exc = "none"
       /\ FullReport(ret.modules, ret.flags, ret.out.val)
       /\ ret.warnings = ExpectedWarnings(ret.modules, ret.flags)

(* C4, amended. Provided module_status returns a record for every module,  *)
(* check_modules returns the full per-module report whatever the flags and *)
(* the warnings, the only exception being the fatal dirty case, and each   *)
(* of the three warnings is decided independently of the other two; when   *)
(* module_status raises for some module (no repository and nogit_ok false, *)
(* a file that is missing or not in the HEAD tree), that exception         *)
(* propagates and no report is returned.                                   *)
C4_FullReport ==
    ret.op = "check_modules" =>
       IF ~AllResolve(ret.modules, ret.flags.nogit_ok)
       THEN /\ ret.out.exc \in {"InvalidGitRepositoryError", "NotInTree",
                                "FileNotFoundError"}
            /\ ret.warnings = <<>>
       ELSE IF FatalDirty(ret.modules, ret.flags)
       THEN ret.out.exc = "DirtyRepo"
       ELSE /\ ret.out.exc = "none"
            /\ FullReport(ret.modules, ret.flags, ret.out.val)
            /\ ret.warnings = ExpectedWarnings(ret.modules, ret.flags)

\* the three warnings at once, and the report returned
C4_Witness ==
    /\ ret.op = "check_modules"
    /\ Len(ret.modules) = 2
    /\ ret.out.exc = "none"
    /\ Len(ret.out.val) = 2
    /\ Len(ret.warnings) = 3

--------------------------------------------------------------------------
(* C5. For a module whose file is in no git repository, module_status      *)
(* fails with the repository-not-found error when nogit_ok is false, and   *)
(* when nogit_ok is true returns a record with status 'not a git           *)
(* repository', no hash key, and a tag key carrying the module's version   *)
(* (absent only when no version can be found); for a module inside a       *)
(* repository it returns exactly path_status of the module's file,         *)
(* whatever nogit_ok is.                                                   *)
C5_ModuleStatus ==
    (ret.op = "module_status" /\ Exists(ret.module.file))
    => IF NoGitModule(ret.module)
       THEN IF ~ret.nogit_ok THEN ret.out.exc = "InvalidGitRepositoryError"
            ELSE /\ ret.out.exc = "none"
                 /\ ret.out.val.status = "not a git repository"
                 /\ "hash" \notin DOMAIN ret.out.val
                 /\ "tag" \in DOMAIN ret.out.val <=> HasVersion(ret.module)
                 /\ HasVersion(ret.module) =>
                       ret.out.val.tag = "v" \o VersionOf(ret.module)
       ELSE ret.out = path_status(ModulePath(ret.module))

\* a submodule with no __version__, in no repository: the tag is the
\* version of its top-level package
C5_Witness ==
    /\ ret.op = "module_status"
    /\ NoGitModule(ret.module)
    /\ ret.module.version = NoAttr
    /\ ret.nogit_ok
    /\ ret.out.exc = "none"
    /\ ret.out.val = [status |-> "not a git repository", tag |-> "v2.1"]

--------------------------------------------------------------------------
(* What the claims about save_metadata speak of *)

\* the caller's dict, and the modules the call asks about
Supplied(call) == IF call.info.t = "None" THEN <<>> ELSE call.info.v
ModulesGiven(call) == call.module.t # "None" \/ call.modules.t # "None"
ModulesOf(call) ==
    IF call.module.t = "module" THEN <<call.module.v>>
    ELSE IF call.module.t = "list" THEN call.module.v
    ELSE call.modules.v

\* the entry holds one record per module name, each module_status's
OneRecordPerModule(entry, modules, nogit_ok) ==
    /\ entry.t = "dict"
    /\ Range(DictKeys(entry.v)) = {Join(modules[i].name, ".") : i \in 1..Len(modules)}
    /\ Len(entry.v) = Cardinality(Range(DictKeys(entry.v)))
    /\ \A i \in 1..Len(modules) :
          DictGet(entry.v, Join(modules[i].name, ".")) =
             module_status(modules[i], nogit_ok).val

--------------------------------------------------------------------------
(* C7. save_metadata round trip: whenever save_metadata completes, the     *)
(* file read back holds the exact caller-supplied keys with their supplied *)
(* values, a 'time (utc)' timestamp string, and a 'code version' entry     *)
(* with one record per module exactly when modules were given; the file    *)
(* holds only this structure. As stated this fails for a caller's key that *)
(* save_metadata sets itself and for keys and values json writes in        *)
(* another form.                                                           *)
C7_Original ==
    (ret.op = "save_metadata" /\ ret.out.exc = "none")
    => /\ file.kind = "json"
       /\ LET back == json_load(file.doc)
              supplied == Supplied(ret)
          IN  /\ \A key \in DOMAIN supplied :
                    key \in DOMAIN back /\ back[key] = supplied[key]
              /\ TimeKey \in DOMAIN back /\ back[TimeKey] = Str(strftime(now))
              /\ CodeKey \in DOMAIN back <=> ModulesGiven(ret)
              /\ ModulesGiven(ret) =>
                    OneRecordPerModule(back[CodeKey], ModulesOf(ret), ret.flags.nogit_ok)
              /\ DOMAIN back \subseteq DOMAIN supplied \cup {TimeKey, CodeKey}

(* C7, amended. Whenever save_metadata completes, the file read back holds *)
(* exactly: 'time (utc)' with the timestamp string; 'code version' with    *)
(* one record per module when modules were given; and every other          *)
(* caller-supplied key with its supplied value, a key that is not a string *)
(* under its JSON string and a tuple as a list. A caller's own 'time       *)
(* (utc)' entry is replaced by the timestamp, and a caller's own 'code     *)
(* version' entry is replaced by the report when modules were given and    *)
(* kept when they were not. Nothing of the file's previous content is      *)
(* left.                                                                   *)
C7_RoundTrip ==
    (ret.op = "save_metadata" /\ ret.out.exc = "none")
    => /\ file.kind = "json"
       /\ LET back == json_load(file.doc)
              supplied == Supplied(ret)
              own == {TimeKey} \cup (IF ModulesGiven(ret) THEN {CodeKey} ELSE {})
          IN  /\ DOMAIN back = {Str(key.v) : key \in DOMAIN supplied} \cup own
              /\ back[TimeKey] = Str(strftime(now))
              /\ ModulesGiven(ret) =>
                    OneRecordPerModule(back[CodeKey], ModulesOf(ret), ret.flags.nogit_ok)
              /\ \A key \in DOMAIN supplied :
                    Str(key.v) \notin own =>
                       back[Str(key.v)] =
                          IF supplied[key].t = "tuple"
                          THEN [t |-> "list", v |-> supplied[key].v]
                          ELSE supplied[key]

\* a save over another document: the caller's key, the timestamp and the
\* report, and nothing else
C7_Witness ==
    /\ ret.op = "save_metadata"
    /\ ret.out.exc = "none"
    /\ ret.before = Stale
    /\ ret.info.t = "dict" /\ DOMAIN ret.info.v = {Str("user")}
    /\ ret.modules.t = "list" /\ Len(ret.modules.v) = 1
    /\ file.kind = "json"
    /\ DOMAIN file.doc = {"user", "time (utc)", "code version"}
    /\ file.doc["user"] = [t |-> "string", v |-> "run 1"]

--------------------------------------------------------------------------
\* check_modules is called and raises
BuildFails(call) ==
    /\ ModulesGiven(call)
    /\ \/ ~AllResolve(ModulesOf(call), call.flags.nogit_ok)
       \/ FatalDirty(ModulesOf(call), call.flags)

(* C9. save_metadata leaves the target file untouched whenever building    *)
(* the metadata fails: if check_modules raises, the file is neither        *)
(* created nor truncated nor written; and the caller's info dictionary is  *)
(* left unmodified in every case.                                          *)
C9_FileUntouched ==
    ret.op = "save_metadata"
    => /\ ret.info_after = ret.info
       /\ BuildFails(ret) =>
             /\ ret.out.exc \in {"DirtyRepo", "InvalidGitRepositoryError",
                                 "NotInTree", "FileNotFoundError"}
             /\ file = ret.before

\* a dirty module, dirty_ok false, another document in the file: it stays
C9_Witness ==
    /\ ret.op = "save_metadata"
    /\ BuildFails(ret)
    /\ ret.out.exc = "DirtyRepo"
    /\ ret.info.t = "dict"
    /\ ret.before = Stale
    /\ file = Stale

====
